---- MODULE Spec2Model ----
(***************************************************************************)
(* Model of the immigration-intel-brief pipeline (src/src/main.py):        *)
(* run gate, state store, canonical keys, relevance filter, change         *)
(* classification, candidate cap, state save and digest delivery.          *)
(*                                                                         *)
(* Text is modelled as sequences of one-character strings so that          *)
(* substring tests, lower-casing, stripping and splitting are computed as  *)
(* the Python code computes them.                                          *)
(***************************************************************************)
EXTENDS Integers, Sequences, FiniteSets, TLC

VARIABLES
  fam,            \* input family of this behaviour (fixes the input sets drawn from)
  settings,       \* load_settings(...): keywords, send_hour_local, always_send
  clock,          \* current instant in UTC: [day, min]; day 0 is before the first invocation
  event,          \* GITHUB_EVENT_NAME of the current invocation
  pc,             \* position of the current invocation inside main()
  disk,           \* .cache/state.json
  state,          \* main(): state (state_items is state["items"], same object)
  world,          \* what the network answers in this run
  raw_items,      \* main(): raw_items
  filtered,       \* main(): filtered
  idx,            \* main(): position of the for loop in filtered (1-based)
  processed,      \* main(): processed
  now_local,      \* main(): now_local (run date)
  new_items,      \* main(): new_items
  updated_items,  \* main(): updated_items
  sent,           \* this invocation handed its digest (new_items, updated_items) to send_email
  outbox,         \* number of digests sent so far
  crashed,        \* the exception that ended the invocation, or "none"
  log,            \* history: one entry per loop iteration of this run
  hist,           \* history: facts about earlier invocations
  other           \* the local variables of a second process of main() while the first runs

vars == << fam, settings, clock, event, pc, disk, state, world, raw_items, filtered,
           idx, processed, now_local, new_items, updated_items, sent, outbox, crashed,
           log, hist, other >>

-----------------------------------------------------------------------------
(* Strings *)

\* Python None where a string is expected: no real text equals it.
None == << "NONE" >>

\* Python truthiness of an Optional[str]
Truthy(s) == s # None /\ s # << >>

\* a or b
OrElse(a, b) == IF Truthy(a) THEN a ELSE b

IsSpace(c) == c \in {" ", "\n", "\t", "\r"}

LowerChar(c) ==
  CASE c = "A" -> "a" [] c = "B" -> "b" [] c = "C" -> "c" [] c = "D" -> "d"
    [] c = "E" -> "e" [] c = "F" -> "f" [] c = "G" -> "g" [] c = "H" -> "h"
    [] c = "I" -> "i" [] c = "J" -> "j" [] c = "K" -> "k" [] c = "L" -> "l"
    [] c = "M" -> "m" [] c = "N" -> "n" [] c = "O" -> "o" [] c = "P" -> "p"
    [] c = "Q" -> "q" [] c = "R" -> "r" [] c = "S" -> "s" [] c = "T" -> "t"
    [] c = "U" -> "u" [] c = "V" -> "v" [] c = "W" -> "w" [] c = "X" -> "x"
    [] c = "Y" -> "y" [] c = "Z" -> "z" [] OTHER -> c

\* str.lower()
Lower(s) == [i \in 1..Len(s) |-> LowerChar(s[i])]

\* str.strip()
RECURSIVE LStrip(_)
LStrip(s) == IF s # << >> /\ IsSpace(s[1]) THEN LStrip(Tail(s)) ELSE s

RECURSIVE RStrip(_)
RStrip(s) ==
  IF s # << >> /\ IsSpace(s[Len(s)]) THEN RStrip(SubSeq(s, 1, Len(s) - 1)) ELSE s

Strip(s) == RStrip(LStrip(s))

\* the index of the first sep in s from index i on, Len(s) + 1 if there is none
RECURSIVE IndexFrom(_, _, _)
IndexFrom(s, sep, i) ==
  IF i > Len(s) \/ s[i] = sep THEN i ELSE IndexFrom(s, sep, i + 1)

\* s.split(sep)[0]
BeforeFirst(s, sep) == SubSeq(s, 1, IndexFrom(s, sep, 1) - 1)

\* term in t
Contains(t, term) ==
  \/ term = << >>
  \/ \E i \in 0..(Len(t) - Len(term)) :
        t[i + 1] = term[1] /\ SubSeq(t, i + 1, i + Len(term)) = term

\* s.startswith(p)
StartsWith(s, p) == Len(s) >= Len(p) /\ SubSeq(s, 1, Len(p)) = p

\* s.endswith(p)
EndsWith(s, p) == Len(s) >= Len(p) /\ SubSeq(s, Len(s) - Len(p) + 1, Len(s)) = p

\* sep.join(parts)
RECURSIVE JoinWith(_, _)
JoinWith(sep, parts) ==
  IF parts = << >> THEN << >>
  ELSE IF Len(parts) = 1 THEN parts[1]
  ELSE parts[1] \o sep \o JoinWith(sep, Tail(parts))

-----------------------------------------------------------------------------
(* Canonical key, fingerprint, hint *)

normalise_url(url) ==
  LET u == Strip(BeforeFirst(IF url = None THEN << >> ELSE url, "#"))
  IN  IF EndsWith(u, << "/" >>) THEN SubSeq(u, 1, Len(u) - 1) ELSE u

\* hashlib.sha256(...).hexdigest(): injective on the texts of the model, never None
sha256_text(s) == << "sha256" >> \o (IF s = None THEN << >> ELSE s)

parse_iso(dt_str) == IF ~Truthy(dt_str) THEN None ELSE Strip(dt_str)

-----------------------------------------------------------------------------
(* Relevance scoring *)

STRONG_TERMS ==
  << <<"i","m","m","i","g","r","a","t","i","o","n">>,
     <<"u","k","v","i">>,
     <<"v","i","s","a">>,
     <<"v","i","s","a","s">>,
     <<"e","v","i","s","a">>,
     <<"e","-","v","i","s","a">>,
     <<"e","t","a">>,
     <<"a","s","y","l","u","m">>,
     <<"r","e","f","u","g","e","e">>,
     <<"n","a","t","i","o","n","a","l","i","t","y">>,
     <<"c","i","t","i","z","e","n","s","h","i","p">>,
     <<"b","o","r","d","e","r">>,
     <<"i","m","m","i","g","r","a","t","i","o","n"," ","r","u","l","e","s">>,
     <<"s","t","a","t","e","m","e","n","t"," ","o","f"," ","c","h","a","n","g","e","s">>,
     <<"l","e","a","v","e"," ","t","o"," ","r","e","m","a","i","n">>,
     <<"i","l","r">>,
     <<"i","n","d","e","f","i","n","i","t","e"," ","l","e","a","v","e">>,
     <<"s","e","t","t","l","e","m","e","n","t">>,
     <<"s","p","o","n","s","o","r"," ","l","i","c","e","n","c","e">>,
     <<"s","p","o","n","s","o","r"," ","l","i","c","e","n","s","e">>,
     <<"s","k","i","l","l","e","d"," ","w","o","r","k","e","r">>,
     <<"s","t","u","d","e","n","t"," ","v","i","s","a">>,
     <<"f","a","m","i","l","y"," ","v","i","s","a">>,
     <<"h","u","m","a","n"," ","r","i","g","h","t","s"," ","c","l","a","i","m">>,
     <<"d","e","p","o","r","t","a","t","i","o","n">>,
     <<"r","e","m","o","v","a","l">>,
     <<"i","m","m","i","g","r","a","t","i","o","n"," ","e","n","f","o","r","c","e","m","e","n","t">>,
     <<"m","o","d","e","r","n"," ","s","l","a","v","e","r","y">>,
     <<"t","r","a","f","f","i","c","k","i","n","g">>,
     <<"n","a","t","i","o","n","a","l"," ","r","e","f","e","r","r","a","l"," ","m","e","c","h","a","n","i","s","m">>,
     <<"n","r","m">>,
     <<"u","t","i","a","c">>,
     <<"u","p","p","e","r"," ","t","r","i","b","u","n","a","l">>,
     <<"f","i","r","s","t","-","t","i","e","r"," ","t","r","i","b","u","n","a","l">> >>

MEDIUM_TERMS ==
  << <<"f","e","e","s">>,
     <<"g","u","i","d","a","n","c","e">>,
     <<"p","o","l","i","c","y">>,
     <<"c","o","n","s","u","l","t","a","t","i","o","n">>,
     <<"s","p","o","n","s","o","r">>,
     <<"c","o","m","p","l","i","a","n","c","e">>,
     <<"r","i","g","h","t"," ","t","o"," ","w","o","r","k">>,
     <<"r","i","g","h","t"," ","t","o"," ","r","e","n","t">>,
     <<"c","i","v","i","l"," ","p","e","n","a","l","t","y">>,
     <<"s","a","n","c","t","i","o","n","s">> >>

EXCLUDE_PHRASES ==
  << <<"p","o","l","i","c","e"," ","c","u","s","t","o","d","y">>,
     <<"p","r","e","-","c","h","a","r","g","e"," ","b","a","i","l">>,
     <<"s","t","r","i","p"," ","s","e","a","r","c","h","e","s">> >>


\* number of terms of the list occurring in t (each listed term counts once)
Hits(terms, t) == Cardinality({i \in 1..Len(terms) : Contains(t, terms[i])})

relevance_score(text) ==
  LET t == Lower(IF text = None THEN << >> ELSE text)
  IN  3 * Hits(STRONG_TERMS, t) + Hits(MEDIUM_TERMS, t) - 3 * Hits(EXCLUDE_PHRASES, t)

\* hay of filter_items
Haystack(it) == Lower(JoinWith(<< " " >>, << it.title, it.summary, it.source, it.url >>))

\* the keyword pre-filter of filter_items: passes unless kws is non-empty and no k is in hay
KeywordPass(it, keywords) ==
  LET kws == [i \in 1..Len(keywords) |-> Lower(keywords[i])]
  IN  kws = << >> \/ \E i \in 1..Len(kws) : Contains(Haystack(it), kws[i])

\* it["__relevance_score"] = score
Annotate(it) == [it EXCEPT !.score = relevance_score(Haystack(it))]

\* list.sort(key=score, reverse=True) is stable: x, the last of the original
\* order, goes behind every element whose score is not smaller
InsertByScore(sorted, x) ==
  LET smaller == {j \in 1..Len(sorted) : sorted[j].score < x.score}
      at == IF smaller = {} THEN Len(sorted) + 1
            ELSE CHOOSE j \in smaller : \A k \in smaller : j <= k
  IN  SubSeq(sorted, 1, at - 1) \o << x >> \o SubSeq(sorted, at, Len(sorted))

RECURSIVE SortByScoreDesc(_)
SortByScoreDesc(s) ==
  IF s = << >> THEN << >>
  ELSE InsertByScore(SortByScoreDesc(SubSeq(s, 1, Len(s) - 1)), s[Len(s)])

RECURSIVE KeepRelevant(_, _)
KeepRelevant(items, keywords) ==
  IF items = << >> THEN << >>
  ELSE LET it == Head(items)
           rest == KeepRelevant(Tail(items), keywords)
       IN  IF KeywordPass(it, keywords) /\ relevance_score(Haystack(it)) >= 3
           THEN << Annotate(it) >> \o rest
           ELSE rest

filter_items(items, keywords) == SortByScoreDesc(KeepRelevant(items, keywords))

-----------------------------------------------------------------------------
(* Bounds of the model *)

\* invocations of main() in one behaviour
MaxRuns == 2

\* the longest feed goes this many items beyond the candidate cap
MaxExtra == 2

\* days of the calendar the run gate is exercised on
MaxDays == 4

\* longest item list handed to filter_items on its own
MaxFilterLen == 2

-----------------------------------------------------------------------------
(* Texts of the model *)

GovPrefix == <<"h","t","t","p","s",":","/","/","w","w","w",".","g","o","v",".","u","k","/">>

SrcGov == <<"G","O","V",".","U","K">>

SrcParliament == <<"P","a","r","l","i","a","m","e","n","t">>

SrcOther == <<"O","t","h","e","r">>

Text1 == <<"o","n","e">>

Text2 == <<"t","w","o">>

Hint1 == <<"h","1">>

Hint2 == <<"h","2">>

Digits == <<"0","1","2","3","4","5","6","7","8","9">>

\* an Item as a source adapter returns it; score is the __relevance_score key,
\* 0 until filter_items sets it
Item(source, title, summary, url, published) ==
  [source |-> source, title |-> title, summary |-> summary, url |-> url,
   published |-> published, score |-> 0]

ItA == Item(SrcGov, <<"V","i","s","a"," ","f","e","e","s">>, << >>,
            GovPrefix \o <<"a">>, <<"p","1">>)

\* the same page as ItA, linked with a trailing slash and a fragment, under another title
ItAfrag == Item(SrcParliament, <<"V","i","s","a"," ","n","e","w","s">>, << >>,
                GovPrefix \o <<"a","/","#","x">>, << >>)

\* the URL of ItA in another letter case
ItAcase == Item(SrcGov, <<"V","i","s","a"," ","f","e","e","s">>, << >>,
                GovPrefix \o <<"A">>, <<"p","1">>)

ItB == Item(SrcParliament, <<"A","s","y","l","u","m"," ","b","i","l","l">>, << >>,
            <<"h","t","t","p",":","/","/","p",".","u","k","/","b">>, << >>)

\* an entry without a link: getattr(e, "link", "") or ""
ItNoUrl == Item(SrcParliament, <<"v","i","s","a">>, << >>, << >>, << >>)

\* a core instrument that matches no keyword
ItSoC == Item(SrcOther,
  <<"S","t","a","t","e","m","e","n","t"," ","o","f"," ","c","h","a","n","g","e","s"," ","H","C"," ","1">>,
  << >>, <<"h","t","t","p",":","/","/","p",".","u","k","/","s">>, << >>)

ItCustody == Item(SrcOther,
  <<"P","o","l","i","c","e"," ","c","u","s","t","o","d","y"," ","v","i","s","a">>,
  << >>, <<"h","t","t","p",":","/","/","p",".","u","k","/","c">>, << >>)

ItNews == Item(SrcOther, <<"N","e","w","s">>, << >>,
               <<"h","t","t","p",":","/","/","p",".","u","k","/","n">>, << >>)

\* the i-th item of a long GOV.UK feed; scores differ so that the order of the
\* feed is not the order by score
BulkItem(i) ==
  Item(SrcGov,
       CASE i % 3 = 1 -> <<"a","s","y","l","u","m"," ","v","i","s","a">>
         [] i % 3 = 2 -> <<"v","i","s","a"," ","f","e","e","s">>
         [] OTHER     -> <<"v","i","s","a">>,
       << >>,
       GovPrefix \o <<"p", Digits[(i \div 10) + 1], Digits[(i % 10) + 1]>>,
       <<"p","1">>)

MAX_CANDIDATES == 30

Bulk(n) == [i \in 1..n |-> BulkItem(i)]

\* what fetch_all_sources may return, per family
Feeds(f) ==
  CASE f = "small" -> { << >>, <<ItA>>, <<ItAfrag>>, <<ItAcase>>, <<ItB>>, <<ItNoUrl, ItA>>,
                        <<ItA, ItAfrag>> }
    [] f = "bulk"  -> { Bulk(MAX_CANDIDATES - 1), Bulk(MAX_CANDIDATES + MaxExtra) }
    [] f = "overlap" -> { <<ItA>>, <<ItB>> }
    [] OTHER       -> { << >> }

\* settings["keywords"], per family
KeywordLists(f) ==
  IF f = "filter"
  THEN { << >>, << <<"V","i","s","a">> >>, << <<"f","e","e","s">>, <<"a","s","y","l","u","m">> >> }
  ELSE { << <<"V","i","s","a">>, <<"a","s","y","l","u","m">> >> }

FilterPool == {ItA, ItB, ItNoUrl, ItSoC, ItCustody, ItNews}

RECURSIVE SeqsUpTo(_, _)
SeqsUpTo(S, n) ==
  IF n = 0 THEN { << >> }
  ELSE LET shorter == SeqsUpTo(S, n - 1)
       IN  shorter \cup { Append(s, x) : s \in shorter, x \in S }

-----------------------------------------------------------------------------
(* Time: instants are [day, min] in UTC; the configured zone has summer time *)

\* day 1 is a winter day, day 2 the day the clocks go forward, day 3 a summer
\* day, day 4 the day the clocks go back, and so on
DayKind(d) ==
  CASE d % 4 = 1 -> "winter" [] d % 4 = 2 -> "forward"
    [] d % 4 = 3 -> "summer" [] OTHER -> "back"

\* pytz: the zone's offset at the instant, in minutes (changes at 01:00 UTC)
UtcOffset(t) ==
  CASE DayKind(t.day) = "winter"  -> 0
    [] DayKind(t.day) = "summer"  -> 60
    [] DayKind(t.day) = "forward" -> IF t.min < 60 THEN 0 ELSE 60
    [] OTHER                      -> IF t.min < 60 THEN 60 ELSE 0

\* datetime.now(tz), in minutes
LocalTotal(t) == t.day * 1440 + t.min + UtcOffset(t)

LocalHour(t) == (LocalTotal(t) % 1440) \div 60

LocalMinute(t) == LocalTotal(t) % 60

\* strftime("%Y-%m-%d") of the local time, as a day number (always >= 1)
LocalDate(t) == LocalTotal(t) \div 1440

\* a gate on the UTC hour
should_send_now_Utc(t, send_hour_local) ==
  t.min \div 60 = send_hour_local /\ t.min % 60 < 20

should_send_now(t, send_hour_local) ==
  LocalHour(t) = send_hour_local /\ LocalMinute(t) < 20

\* the minutes of a day at which an invocation may happen when the gate is exercised
GridMinutes == { h * 60 + m : h \in {0, 1, 6, 7}, m \in {0, 19, 20} }

Least(S) == CHOOSE x \in S : \A y \in S : x <= y

HasNextInstant(t) == t.day < MaxDays \/ \E m \in GridMinutes : m > t.min

NextInstant(t) ==
  IF \E m \in GridMinutes : m > t.min
  THEN [day |-> t.day, min |-> Least({m \in GridMinutes : m > t.min})]
  ELSE [day |-> t.day + 1, min |-> Least(GridMinutes)]

\* the instant of the next invocation, per family: at the current instant when
\* the gate is exercised, else at 07:00 UTC of the next day
InvokeAt(f, t) == IF f = "gate" THEN t ELSE [day |-> t.day + 1, min |-> 7 * 60]

Events(f) == IF f = "gate" THEN {"schedule", "workflow_dispatch"} ELSE {"workflow_dispatch"}

-----------------------------------------------------------------------------
(* State store *)

\* the fields a missing key reads as (dict.get gives None; a date None is 0)
NoRec ==
  [dict |-> TRUE, first_seen |-> 0, last_seen |-> 0, last_modified |-> None,
   last_content_hash |-> None, last_title |-> None, last_source |-> None]

\* a JSON value in a record's place that is not an object (a string, a number)
BadRec == [NoRec EXCEPT !.dict = FALSE]

EmptyMap == [k \in {} |-> NoRec]

\* {"items": {}}
EmptyState == [top |-> "object", items |-> "object", map |-> EmptyMap]

\* before load_state has run
NoState == [top |-> "unset", items |-> "unset", map |-> EmptyMap]

AbsentFile == [kind |-> "absent", top |-> "unset", items |-> "unset", map |-> EmptyMap]

\* what .cache/state.json may hold before the first invocation, per family
InitialDisks(f) ==
  IF f = "small"
  THEN { AbsentFile,
         [AbsentFile EXCEPT !.kind = "garbage"],
         [kind |-> "json", top |-> "array", items |-> "unset", map |-> EmptyMap],
         [kind |-> "json", top |-> "object", items |-> "array", map |-> EmptyMap],
         [kind |-> "json", top |-> "object", items |-> "object",
          map |-> [k \in {normalise_url(ItB.url)} |-> BadRec]] }
  ELSE { AbsentFile }

\* a load that starts every run from the empty mapping
load_state_Empty(d) == EmptyState

\* json.loads(STATE_PATH.read_text()), {"items": {}} if the file is missing or unparseable
load_state(d) ==
  IF d.kind = "absent" THEN EmptyState
  ELSE IF d.kind = "garbage" THEN EmptyState
  ELSE [top |-> d.top, items |-> d.items, map |-> d.map]

\* the file after STATE_PATH.write_text(json.dumps(state))
save_state(s) == [kind |-> "json", top |-> s.top, items |-> s.items, map |-> s.map]

-----------------------------------------------------------------------------
(* Full-text fetch *)

FailResp == [ok |-> FALSE, text |-> << >>, hint |-> None]

OkResp(t, h) == [ok |-> TRUE, text |-> t, hint |-> h]

Answers == { OkResp(Text1, None), OkResp(Text1, Hint1), OkResp(Text1, Hint2) }

\* what the network answers to the requests of one fetch_full_text call:
\* api is the GOV.UK Content API request, page the request of the page itself
Responses(w) ==
  CASE w = "v1" -> { [api |-> OkResp(Text1, Hint1), page |-> FailResp] }
    [] w = "v2" -> { [api |-> OkResp(Text2, Hint2), page |-> FailResp] }
    [] OTHER    -> { [api |-> a, page |-> a] : a \in Answers \cup {FailResp} }

Worlds(f) ==
  CASE f = "bulk"    -> {"v1", "v2"}
    [] f = "overlap" -> {"v1"}
    [] OTHER         -> {"free"}

fetch_full_text(item, resp) ==
  LET url == normalise_url(item.url)
      plain == Strip(resp.api.text)
  IN  IF url = << >> THEN [text |-> << >>, hint |-> None]
      ELSE IF StartsWith(url, GovPrefix) /\ resp.api.ok /\ plain # << >>
      THEN [text |-> plain, hint |-> parse_iso(resp.api.hint)]
      ELSE IF resp.page.ok
      THEN [text |-> SubSeq(resp.page.text, 1, IF Len(resp.page.text) < 20000
                                                THEN Len(resp.page.text) ELSE 20000),
            hint |-> parse_iso(resp.page.hint)]
      ELSE [text |-> Strip(item.title \o << "\n" >> \o item.summary), hint |-> None]

-----------------------------------------------------------------------------
(* Change classification *)

\* a classification that looks at the fingerprint only
Classify_FingerprintOnly(had, prev, content_hash, lm_hint) ==
  IF ~had THEN "NEW"
  ELSE IF content_hash # prev.last_content_hash THEN "UPDATED"
  ELSE "SKIP"

\* main(): "Determine NEW / UPDATED / SKIP"; had is "prev is not None"
Classify(had, prev, content_hash, lm_hint) ==
  IF ~had THEN "NEW"
  ELSE IF content_hash # prev.last_content_hash THEN "UPDATED"
  ELSE IF Truthy(lm_hint) /\ (prev.last_modified = None \/ lm_hint # prev.last_modified)
  THEN "UPDATED"
  ELSE "SKIP"

\* an update that writes a fresh record over the stored one
UpdatedRecord_Fresh(had, prev, it, content_hash, lm_hint, today) ==
  [dict |-> TRUE, first_seen |-> today, last_seen |-> today,
   last_modified |-> OrElse(lm_hint, OrElse(it.published, None)),
   last_content_hash |-> content_hash,
   last_title |-> it.title, last_source |-> it.source]

\* main(): "Update state" for a NEW or UPDATED item
UpdatedRecord(had, prev, it, content_hash, lm_hint, today) ==
  IF ~had
  THEN [dict |-> TRUE, first_seen |-> today, last_seen |-> today,
        last_modified |-> OrElse(lm_hint, OrElse(it.published, None)),
        last_content_hash |-> content_hash,
        last_title |-> it.title, last_source |-> it.source]
  ELSE [prev EXCEPT !.last_seen = today,
                    !.last_modified = OrElse(lm_hint, OrElse(it.published, prev.last_modified)),
                    !.last_content_hash = content_hash,
                    !.last_title = it.title,
                    !.last_source = it.source]

\* a SKIP branch that leaves the record as it is
TouchedRecord_Untouched(prev, today) == prev

\* main(): the SKIP branch, prev["last_seen"] = now_local
TouchedRecord(prev, today) == [prev EXCEPT !.last_seen = today]

Put(map, key, rec) == [k \in DOMAIN map \cup {key} |-> IF k = key THEN rec ELSE map[k]]

\* the summary of the digest entry: what summarise_item returned, or the notice
\* main() builds when it raised
Summary(it, url, ok) ==
  IF ok THEN << "summary" >>
  ELSE << "- Summary unavailable (AI error)" >> \o it.title \o it.source \o url

\* summarise_item(title, content, source, section, is_update) of src/src/summarise.py
\* is called without source and section and raises TypeError; another
\* summarise_item may return
SummariserReturns(w) == IF w = "free" THEN {TRUE, FALSE} ELSE {FALSE}

\* out = dict(it) with ai_summary and, for an UPDATED item with a prior last_seen,
\* previously_covered (0: the key is not set)
OutItem(it, ai, status, prior_last_seen) ==
  [source |-> it.source, title |-> it.title, summary |-> it.summary, url |-> it.url,
   published |-> it.published, score |-> it.score, ai_summary |-> ai,
   previously_covered |-> IF status = "UPDATED" /\ prior_last_seen # 0
                          THEN prior_last_seen ELSE 0]

\* a cap on the positions of filtered instead of the summarised items
LoopEnds_ByPosition(i, n, items) == i > Len(items) \/ i > MAX_CANDIDATES

\* the for loop is over: filtered is exhausted, or "if processed >= MAX_CANDIDATES: break"
LoopEnds(i, n, items) == i > Len(items) \/ n >= MAX_CANDIDATES

-----------------------------------------------------------------------------
(* main() *)

\* scheduled invocations of one local date: how many there were and how many
\* passed the gate (counted up to 2)
NoDay == [date |-> 0, sched |-> 0, passed |-> 0]

NoPrev == [filtered |-> << >>, log |-> << >>, saved |-> FALSE, world |-> "none"]

UpTo2(n) == IF n < 2 THEN n ELSE 2

\* the counters after a scheduled invocation on the local date
Counted(day, date, passes) ==
  IF day.date = date
  THEN [day EXCEPT !.sched = UpTo2(@ + 1), !.passed = UpTo2(@ + (IF passes THEN 1 ELSE 0))]
  ELSE [date |-> date, sched |-> 1, passed |-> IF passes THEN 1 ELSE 0]

Settings(f) ==
  { [keywords |-> k, send_hour_local |-> h, always_send |-> a] :
      k \in KeywordLists(f),
      h \in (IF f = "gate" THEN {1, 7} ELSE {7}),
      a \in {FALSE} }

\* before the first invocation; loaded is the file as load_state found it
NoHist ==
  [prev |-> NoPrev, passed |-> FALSE, saved |-> FALSE, today |-> NoDay, before |-> NoDay,
   loaded |-> AbsentFile]

\* the local variables of a process of main() that has not been invoked
IdleProcess ==
  [event |-> "none", pc |-> "idle", state |-> NoState, world |-> "free",
   raw_items |-> << >>, filtered |-> << >>, idx |-> 1, processed |-> 0, now_local |-> 0,
   new_items |-> << >>, updated_items |-> << >>, sent |-> FALSE, crashed |-> "none",
   log |-> << >>, hist |-> NoHist]

\* another invocation may start: once per instant when the gate is exercised,
\* else one a day
MayInvoke ==
  IF fam = "gate" THEN pc = "idle"
  ELSE pc \in {"idle", "done"} /\ clock.day < MaxRuns

InitFor(f) ==
  /\ fam = f
  /\ settings \in Settings(f)
  /\ clock = [day |-> IF f = "gate" THEN 1 ELSE 0, min |-> 0]
  /\ event = "none"
  /\ pc = "idle"
  /\ disk \in InitialDisks(f)
  /\ state = NoState
  /\ world = "free"
  /\ raw_items = << >>
  /\ filtered = << >>
  /\ idx = 1
  /\ processed = 0
  /\ now_local = 0
  /\ new_items = << >>
  /\ updated_items = << >>
  /\ sent = FALSE
  /\ outbox = 0
  /\ crashed = "none"
  /\ log = << >>
  /\ hist = NoHist
  /\ other = IdleProcess

Init == InitFor("small") \/ InitFor("bulk")

\* main() up to the run gate: a new process starts, reads the settings and,
\* for a scheduled run outside the send window, returns
Invoke ==
  /\ MayInvoke
  /\ \E ev \in Events(fam), w \in Worlds(fam) :
       LET t == InvokeAt(fam, clock)
           passes == ev # "schedule" \/ should_send_now(t, settings.send_hour_local)
           date == LocalDate(t)
       IN  /\ clock' = t
           /\ event' = ev
           /\ world' = w
           /\ pc' = IF passes THEN "load" ELSE "done"
           /\ hist' = [prev |-> IF fam = "bulk"
                                THEN [filtered |-> filtered, log |-> log,
                                      saved |-> hist.saved, world |-> world]
                                ELSE NoPrev,
                       passed |-> passes,
                       saved |-> FALSE,
                       today |-> IF ev = "schedule" THEN Counted(hist.today, date, passes)
                                 ELSE hist.today,
                       before |-> IF ev = "schedule" /\ hist.today.date # date
                                  THEN hist.today ELSE hist.before,
                       loaded |-> AbsentFile]
  /\ state' = NoState
  /\ raw_items' = << >>
  /\ filtered' = << >>
  /\ idx' = 1
  /\ processed' = 0
  /\ now_local' = 0
  /\ new_items' = << >>
  /\ updated_items' = << >>
  /\ sent' = FALSE
  /\ crashed' = "none"
  /\ log' = << >>
  /\ UNCHANGED << other, fam, settings, disk, outbox >>

\* time passes to the next instant of the calendar; the last invocation is over
Tick ==
  /\ fam = "gate"
  /\ pc \in {"idle", "done"}
  /\ HasNextInstant(clock)
  /\ clock' = NextInstant(clock)
  /\ pc' = "idle"
  /\ UNCHANGED << other, fam, settings, event, disk, state, world, raw_items, filtered, idx,
                  processed, now_local, new_items, updated_items, sent, outbox, crashed,
                  log, hist >>

\* state = load_state(); state_items = state.get("items", {})
LoadState ==
  /\ pc = "load"
  /\ state' = load_state(disk)
  /\ IF state'.top = "object"
     THEN pc' = "fetch" /\ crashed' = crashed
     ELSE pc' = "done" /\ crashed' = "AttributeError"
  /\ hist' = [hist EXCEPT !.loaded = disk]
  /\ UNCHANGED << other, fam, settings, clock, event, disk, world, raw_items, filtered, idx,
                  processed, now_local, new_items, updated_items, sent, outbox, log >>

\* raw_items = fetch_all_sources(settings); filtered = filter_items(...);
\* now_local, new_items, updated_items, processed are set. A source adapter
\* whose request raises ends main() with the exception.
FetchFilter ==
  /\ pc = "fetch"
  /\ \/ /\ \E feed \in Feeds(fam) :
             /\ raw_items' = feed
             /\ filtered' = filter_items(feed, settings.keywords)
        /\ now_local' = LocalDate(clock)
        /\ pc' = IF LoopEnds(1, 0, filtered') THEN "save" ELSE "loop"
        /\ crashed' = crashed
     \/ /\ fam = "small"
        /\ pc' = "done"
        /\ crashed' = "RequestException"
        /\ UNCHANGED << raw_items, filtered, now_local >>
  /\ UNCHANGED << other, fam, settings, clock, event, disk, state, world, idx, processed,
                  new_items, updated_items, sent, outbox, log, hist >>

LogEntry(pos, key, status, had, prev, fetched) ==
  [pos |-> pos, key |-> key, status |-> status, had |-> had, prev |-> prev,
   text |-> fetched.text, hint |-> fetched.hint]

\* one iteration of "for it in filtered"
LoopStep ==
  /\ pc = "loop"
  /\ LET it == filtered[idx]
         url == normalise_url(it.url)
         had == url \in DOMAIN state.map
         prev == IF had THEN state.map[url] ELSE NoRec
     IN  IF url = << >>
         THEN \* continue
              /\ log' = Append(log, LogEntry(idx, url, "NOURL", FALSE, NoRec,
                                             [text |-> << >>, hint |-> None]))
              /\ idx' = idx + 1
              /\ pc' = IF LoopEnds(idx', processed, filtered) THEN "save" ELSE "loop"
              /\ UNCHANGED << state, processed, new_items, updated_items, crashed >>
         ELSE IF state.items # "object" \/ ~prev.dict
         THEN \* state_items.get / prev.get: the value has no get
              /\ pc' = "done"
              /\ crashed' = "AttributeError"
              /\ UNCHANGED << state, idx, processed, new_items, updated_items, log >>
         ELSE \E resp \in Responses(world) :
                LET fetched == fetch_full_text(it, resp)
                    content_hash == sha256_text(fetched.text)
                    status == Classify(had, prev, content_hash, fetched.hint)
                IN  IF status = "SKIP"
                    THEN /\ state' = [state EXCEPT !.map = Put(@, url, TouchedRecord(prev, now_local))]
                         /\ log' = Append(log, LogEntry(idx, url, status, had, prev, fetched))
                         /\ idx' = idx + 1
                         /\ pc' = IF LoopEnds(idx', processed, filtered) THEN "save" ELSE "loop"
                         /\ UNCHANGED << processed, new_items, updated_items, crashed >>
                    ELSE \E ai_ok \in SummariserReturns(world) :
                           LET out == OutItem(it, Summary(it, url, ai_ok), status, prev.last_seen)
                           IN  /\ state' = [state EXCEPT !.map =
                                     Put(@, url, UpdatedRecord(had, prev, it, content_hash,
                                                               fetched.hint, now_local))]
                               /\ new_items' = IF status = "NEW" THEN Append(new_items, out)
                                               ELSE new_items
                               /\ updated_items' = IF status = "NEW" THEN updated_items
                                                   ELSE Append(updated_items, out)
                               /\ processed' = processed + 1
                               /\ log' = Append(log, LogEntry(idx, url, status, had, prev,
                                                              fetched))
                               /\ idx' = idx + 1
                               /\ pc' = IF LoopEnds(idx', processed', filtered)
                                        THEN "save" ELSE "loop"
                               /\ crashed' = crashed
  /\ UNCHANGED << other, fam, settings, clock, event, disk, world, raw_items, filtered,
                  now_local, sent, outbox, hist >>

\* state["items"] = state_items; save_state(state); then the "nothing to
\* report" return. A write that raises ends main() with the exception.
SaveState ==
  /\ pc = "save"
  /\ \/ /\ disk' = save_state(state)
        /\ hist' = [hist EXCEPT !.saved = TRUE]
        /\ pc' = IF new_items = << >> /\ updated_items = << >> /\ ~settings.always_send
                 THEN "done" ELSE "send"
        /\ crashed' = crashed
     \/ /\ fam = "small"
        /\ pc' = "done"
        /\ crashed' = "OSError"
        /\ UNCHANGED << disk, hist >>
  /\ UNCHANGED << other, fam, settings, clock, event, state, world, raw_items, filtered, idx,
                  processed, now_local, new_items, updated_items, sent, outbox, log >>

\* render_email_html(new_items, updated_items, ...) and send_email(...)
Send ==
  /\ pc = "send"
  /\ sent' = TRUE
  /\ outbox' = outbox + 1
  /\ pc' = "done"
  /\ UNCHANGED << other, fam, settings, clock, event, disk, state, world, raw_items, filtered,
                  idx, processed, now_local, new_items, updated_items, crashed, log, hist >>

Next == Invoke \/ LoadState \/ FetchFilter \/ LoopStep \/ SaveState \/ Send

Spec == Init /\ [][Next]_vars

\* the pipeline on short feeds, with every answer of the network and every fault
SmallSpec == InitFor("small") /\ [][Next]_vars

\* the pipeline on feeds around the candidate cap
BulkSpec == InitFor("bulk") /\ [][Next]_vars

\* scheduled and manual invocations at any instants of the calendar
GateNext == Tick \/ Invoke \/ LoadState \/ FetchFilter \/ SaveState

GateSpec == InitFor("gate") /\ [][GateNext]_vars

\* filter_items on its own: any short list of items, any keyword list
FilterInit ==
  /\ fam = "filter"
  /\ settings \in Settings("filter")
  /\ clock = [day |-> 0, min |-> 0]
  /\ event = "none"
  /\ pc = "filter"
  /\ disk = AbsentFile
  /\ state = NoState
  /\ world = "free"
  /\ raw_items \in SeqsUpTo(FilterPool, MaxFilterLen)
  /\ filtered = << >>
  /\ idx = 1
  /\ processed = 0
  /\ now_local = 0
  /\ new_items = << >>
  /\ updated_items = << >>
  /\ sent = FALSE
  /\ outbox = 0
  /\ crashed = "none"
  /\ log = << >>
  /\ hist = NoHist
  /\ other = IdleProcess

\* filtered = filter_items(raw_items, settings["keywords"])
RunFilter ==
  /\ pc = "filter"
  /\ filtered' = filter_items(raw_items, settings.keywords)
  /\ pc' = "filtered"
  /\ UNCHANGED << other, fam, settings, clock, event, disk, state, world, raw_items, idx,
                  processed, now_local, new_items, updated_items, sent, outbox, crashed,
                  log, hist >>

FilterSpec == FilterInit /\ [][RunFilter]_vars

\* the local variables of the running process
Locals ==
  [event |-> event, pc |-> pc, state |-> state, world |-> world, raw_items |-> raw_items,
   filtered |-> filtered, idx |-> idx, processed |-> processed, now_local |-> now_local,
   new_items |-> new_items, updated_items |-> updated_items, sent |-> sent,
   crashed |-> crashed, log |-> log, hist |-> hist]

\* two processes of main() on one machine: the operating system lets the other
\* process run; the file and the clock are shared, nothing locks the file
Switch ==
  /\ fam = "overlap"
  /\ pc # "idle"
  /\ other' = Locals
  /\ event' = other.event
  /\ pc' = other.pc
  /\ state' = other.state
  /\ world' = other.world
  /\ raw_items' = other.raw_items
  /\ filtered' = other.filtered
  /\ idx' = other.idx
  /\ processed' = other.processed
  /\ now_local' = other.now_local
  /\ new_items' = other.new_items
  /\ updated_items' = other.updated_items
  /\ sent' = other.sent
  /\ crashed' = other.crashed
  /\ log' = other.log
  /\ hist' = other.hist
  /\ UNCHANGED << fam, settings, clock, disk, outbox >>

OverlapNext == Switch \/ Invoke \/ LoadState \/ FetchFilter \/ LoopStep \/ SaveState \/ Send

\* runs that may overlap on the same state file
OverlapSpec == InitFor("overlap") /\ [][OverlapNext]_vars

-----------------------------------------------------------------------------
(* Properties *)

\* the loop iterations of the current run that classified an item
Classified == { i \in DOMAIN log : log[i].status # "NOURL" }

\* the ordered rule of the specification, on the stored fingerprint and hint
OrderedRule(hasRecord, storedFingerprint, storedHint, freshFingerprint, freshHint) ==
  CASE ~hasRecord -> "NEW"
    [] hasRecord /\ freshFingerprint # storedFingerprint -> "UPDATED"
    [] hasRecord /\ freshFingerprint = storedFingerprint
         /\ Truthy(freshHint) /\ (~Truthy(storedHint) \/ storedHint # freshHint) -> "UPDATED"
    [] OTHER -> "SKIP"

\* C1: every classification computed in main() equals the ordered rule: no
\* stored record gives NEW; else a fingerprint that differs from the stored one
\* gives UPDATED; else a present hint with the stored hint absent or different
\* gives UPDATED; otherwise the item is unchanged (SKIP).
C1_ClassificationIsOrderedRule ==
  \A i \in Classified :
    log[i].status = OrderedRule(log[i].had, log[i].prev.last_content_hash,
                                log[i].prev.last_modified,
                                sha256_text(log[i].text), log[i].hint)

\* C1 witness: a stored key whose fingerprint is unchanged is UPDATED because
\* of its hint, and another iteration found a stored key unchanged
C1_Witness_HintEscalation ==
  /\ \E i \in Classified :
       /\ log[i].had
       /\ sha256_text(log[i].text) = log[i].prev.last_content_hash
       /\ log[i].prev.last_modified # None
       /\ log[i].status = "UPDATED"
  /\ \E i \in Classified : log[i].status = "SKIP"

\* this run is complete and saved, and so was the run before it, over the same
\* filtered items with the same answers of the network
RepeatedRun ==
  /\ pc = "done" /\ crashed = "none" /\ hist.saved
  /\ hist.prev.saved
  /\ hist.prev.filtered = filtered
  /\ hist.prev.world = world

\* C2: idempotence across runs: a run that immediately follows a complete run
\* over the same items with the same fetched text and hints classifies every
\* item unchanged and produces empty NEW and UPDATED sequences.
C2_RepeatedRunIsUnchanged ==
  RepeatedRun =>
    /\ \A i \in Classified : log[i].status = "SKIP"
    /\ new_items = << >>
    /\ updated_items = << >>

\* C3: after a run's save every filtered item with a non-empty canonical key
\* has a record in the persisted store, the items beyond the candidate cap
\* included.
C3_EveryFilteredItemRecorded ==
  (pc \in {"done", "send"} /\ crashed = "none" /\ hist.saved) =>
    \A i \in DOMAIN filtered :
      normalise_url(filtered[i].url) # << >> =>
        normalise_url(filtered[i].url) \in DOMAIN disk.map

\* the items of the sequence with the score, in their order
WithScore(items, k) == LET Is(x) == x.score = k IN SelectSeq(items, Is)

\* the log entries with the status, in their order
WithStatus(entries, st) == LET Is(e) == e.status = st IN SelectSeq(entries, Is)

\* the candidate a digest entry was made of
Candidate(out) ==
  [source |-> out.source, title |-> out.title, summary |-> out.summary, url |-> out.url,
   published |-> out.published, score |-> out.score]

\* filtered is what passes the filter, by score descending, ties in the order
\* of the source adapters
IsStableByScore(sorted, kept) ==
  /\ \A i \in DOMAIN sorted : i > 1 => sorted[i - 1].score >= sorted[i].score
  /\ Len(sorted) = Len(kept)
  /\ \A k \in {kept[i].score : i \in DOMAIN kept} :
       WithScore(sorted, k) = WithScore(kept, k)

\* filter_items has returned and the for loop has not yet examined an item
LoopStarts == pc \in {"loop", "save"} /\ now_local # 0 /\ log = << >>

StableByScore ==
  LoopStarts => IsStableByScore(filtered, KeepRelevant(raw_items, settings.keywords))

\* the for loop of this run is over and nothing raised
LoopOver == pc \in {"save", "send", "done"} /\ crashed = "none" /\ now_local # 0

\* the digest of a run whose loop is over: the loop examined a prefix of
\* filtered, summarised every NEW or UPDATED item of it, at most
\* MAX_CANDIDATES of them, and stopped before the end only at that count
DigestIsFirstChanged ==
  LoopOver =>
    /\ \A i \in DOMAIN log : log[i].pos = i
    /\ Len(log) <= Len(filtered)
    /\ processed = Len(new_items) + Len(updated_items)
    /\ processed <= MAX_CANDIDATES
    /\ Len(log) < Len(filtered) => processed = MAX_CANDIDATES
    /\ LET n == WithStatus(log, "NEW")
           u == WithStatus(log, "UPDATED")
       IN  /\ Len(n) = Len(new_items)
           /\ Len(u) = Len(updated_items)
           /\ \A j \in DOMAIN n : Candidate(new_items[j]) = filtered[n[j].pos]
           /\ \A j \in DOMAIN u : Candidate(updated_items[j]) = filtered[u[j].pos]

\* C4 (as amended): candidates are ordered by score descending, ties in adapter
\* order, and the cap counts summarised items, not positions: the digest holds
\* exactly the first MAX_CANDIDATES NEW or UPDATED items of that order (all of
\* them if there are fewer), wherever they are ranked.
C4_DigestIsFirst30Changed == StableByScore /\ DigestIsFirstChanged

\* C4 witness: a run is over in which the item ranked 31st was summarised
C4_Witness_Rank31Summarised ==
  /\ LoopOver
  /\ \E i \in Classified : log[i].pos > MAX_CANDIDATES /\ log[i].status \in {"NEW", "UPDATED"}
  /\ \E i \in DOMAIN filtered : i > 1 /\ filtered[i].score = filtered[i - 1].score
  /\ \E i \in DOMAIN filtered : filtered[i].url # raw_items[i].url

\* C4 as stated: no item ranked at position 31 or later is ever summarised
C4_NothingBeyondPosition30 ==
  \A i \in Classified :
    log[i].status \in {"NEW", "UPDATED"} => log[i].pos <= MAX_CANDIDATES

\* an invocation has been started at the instant of the clock
Invoked == pc # "idle" /\ event # "none"

\* the invocation returned at the gate: nothing was loaded, fetched, saved or sent
ReturnedAtGate ==
  /\ pc = "done" /\ crashed = "none"
  /\ state = NoState
  /\ raw_items = << >> /\ now_local = 0
  /\ ~hist.saved
  /\ ~sent

\* C5 (as amended): the gate is a time window without memory: a scheduled
\* invocation proceeds if and only if its local wall-clock hour is the target
\* hour and its local minute is below 20, whatever other invocations the day
\* had; a scheduled invocation outside the window returns without loading,
\* fetching, saving or sending; a manual invocation always proceeds.
C5_GateIsLocalTimeWindow ==
  Invoked =>
    /\ event = "schedule" =>
         (hist.passed <=> (LocalHour(clock) = settings.send_hour_local
                           /\ LocalMinute(clock) < 20))
    /\ event # "schedule" => hist.passed
    /\ ~hist.passed => ReturnedAtGate

\* C5 witness: on a day of a clock change, the second scheduled invocation of
\* the local date returned at the gate after the first one had proceeded
C5_Witness_SecondOfDayReturns ==
  /\ Invoked /\ event = "schedule"
  /\ DayKind(clock.day) \in {"forward", "back"}
  /\ hist.today.sched = 2 /\ hist.today.passed = 1
  /\ ~hist.passed /\ ReturnedAtGate

\* C5 as stated: of the scheduled invocations of one local calendar day exactly
\* one proceeds past the gate (today: not more than one; a day that is over:
\* exactly one)
C5_ExactlyOnePerLocalDay ==
  /\ hist.today.passed <= 1
  /\ hist.before.sched > 0 => hist.before.passed = 1

\* C6: state load never fails a run: an absent or unparseable persisted state
\* is read as the empty mapping, and no run ends with an error raised on the
\* content of a persisted state that parses but is not a well-formed mapping
\* of keys to records.
C6_StateContentNeverFailsRun ==
  /\ crashed # "AttributeError"
  /\ (pc \in {"fetch", "loop"} /\ disk.kind \in {"absent", "garbage"}) =>
       state = EmptyState \/ log # << >>

\* C7: a failed state write does not unwind a successful run: a run whose
\* write failed and whose NEW or UPDATED sequence is non-empty still sends
\* its digest.
C7_WriteFailureStillSends ==
  (pc = "done" /\ crashed = "OSError" /\ (new_items # << >> \/ updated_items # << >>))
    => sent

\* C8: a failure of an external collaborator never aborts a run: no run ends
\* with the exception of a source adapter's request, and an item whose
\* summariser raised is in the digest with the fallback notice.
C8_CollaboratorFailureNeverAborts ==
  /\ crashed # "RequestException"
  /\ \A i \in Classified :
       log[i].status \in {"NEW", "UPDATED"} =>
         \E out \in {new_items[j] : j \in DOMAIN new_items}
                      \cup {updated_items[j] : j \in DOMAIN updated_items} :
           Candidate(out) = filtered[log[i].pos] /\ out.ai_summary # << >>

\* the specification's "core instrument" override phrases: a statement of
\* changes to the rules (filter_items has no such list)
CoreInstrumentPhrases ==
  << <<"s","t","a","t","e","m","e","n","t"," ","o","f"," ","c","h","a","n","g","e","s">> >>

\* the pre-filter of the specification: no keywords, a keyword in the
\* haystack, or a core-instrument phrase in the haystack
PassesPreFilter(it, keywords) ==
  \/ keywords = << >>
  \/ \E i \in DOMAIN keywords : Contains(Haystack(it), Lower(keywords[i]))
  \/ \E i \in DOMAIN CoreInstrumentPhrases : Contains(Haystack(it), CoreInstrumentPhrases[i])

\* C9: an item is in the output of the relevance filter if and only if it
\* passes the pre-filter (no keywords, or a keyword in its case-folded
\* haystack, or a core-instrument phrase in it) and its relevance score is at
\* least 3; every item of the output carries its score.
C9_MembershipWithOverride ==
  pc = "filtered" =>
    /\ \A i \in DOMAIN raw_items :
         (\E j \in DOMAIN filtered : filtered[j] = Annotate(raw_items[i]))
           <=> /\ PassesPreFilter(raw_items[i], settings.keywords)
               /\ relevance_score(Haystack(raw_items[i])) >= 3
    /\ \A j \in DOMAIN filtered :
         /\ filtered[j].score = relevance_score(Haystack(filtered[j]))
         /\ filtered[j].score >= 3

\* C10: URLs that differ only by a fragment, a trailing slash or letter case
\* select the same record: no key of the store has a fragment or a trailing
\* slash, no two keys differ only by letter case, an observation classified
\* NEW has no record under a key that differs only by letter case, and the
\* empty key has no record and is never looked up.
C10_OneRecordPerUrlVariation ==
  /\ \A k \in DOMAIN state.map :
       /\ k # << >>
       /\ ~Contains(k, << "#" >>)
       /\ ~EndsWith(k, << "/" >>)
  /\ \A k1, k2 \in DOMAIN state.map : Lower(k1) = Lower(k2) => k1 = k2
  /\ \A i \in DOMAIN log : log[i].key = << >> <=> log[i].status = "NOURL"

\* the step is a loop iteration that classified its item with the status
Iterated(st) ==
  /\ pc = "loop" /\ other' = other
  /\ Len(log') = Len(log) + 1
  /\ log'[Len(log')].status = st

\* the step is a state save that succeeded
Saved == pc = "save" /\ other' = other /\ hist'.saved /\ crashed' = "none"

\* what an iteration that finds its item unchanged does, and what a save writes
UnchangedOnlyTouches ==
  /\ Iterated("SKIP") =>
       LET k == log'[Len(log')].key
       IN  /\ k \in DOMAIN state.map
           /\ DOMAIN state'.map = DOMAIN state.map
           /\ state'.map[k].last_seen = now_local
           /\ state'.map[k] = [state.map[k] EXCEPT !.last_seen = now_local]
           /\ \A o \in DOMAIN state.map \ {k} : state'.map[o] = state.map[o]
           /\ new_items' = new_items
           /\ updated_items' = updated_items
           /\ processed' = processed
  /\ Saved => disk'.map = state.map

\* C11: an UNCHANGED classification sets the record's last_seen to the run
\* date and leaves every other field of the record and every other record as
\* they were; the item is not summarised and enters neither the NEW nor the
\* UPDATED sequence; the save at the end of the run writes the touched record.
C11_UnchangedOnlyTouchesLastSeen == [][UnchangedOnlyTouches]_vars

\* C11 witness: a saved run found a key unchanged whose record was last seen
\* on an earlier date, and the persisted record carries the run date
C11_Witness_TouchPersisted ==
  /\ pc = "done" /\ crashed = "none" /\ hist.saved
  /\ \E i \in Classified :
       /\ log[i].status = "SKIP"
       /\ log[i].prev.last_seen < now_local
       /\ disk.map[log[i].key] = [log[i].prev EXCEPT !.last_seen = now_local]

\* the run has not saved yet: the file holds what the previous run left
BeforeSave == pc \in {"loop", "save"} /\ now_local # 0

\* C12: every item of the UPDATED sequence carries a previously_covered equal
\* to the last_seen its key's record had when the previous run ended, the date
\* of an earlier run; the items of the NEW sequence carry none.
C12_PreviouslyCoveredIsEarlierRun ==
  BeforeSave =>
    /\ \A j \in DOMAIN updated_items :
         LET k == normalise_url(updated_items[j].url)
         IN  /\ k \in DOMAIN disk.map
             /\ updated_items[j].previously_covered = disk.map[k].last_seen
             /\ updated_items[j].previously_covered < now_local
    /\ \A j \in DOMAIN new_items : new_items[j].previously_covered = 0

\* a save replaces the whole persisted mapping by the mapping of its process,
\* whatever the file holds by then; if the file is still as the process loaded
\* it (no other run saved in between), no persisted record is discarded
SaveReplacesWholeMapping ==
  Saved =>
    /\ disk'.map = state.map
    /\ disk = hist.loaded => \A k \in DOMAIN disk.map : k \in DOMAIN disk'.map

\* C13: the store has no locking: a save replaces the whole persisted mapping,
\* so a run that loaded before another run saved discards that run's records
\* (the witness); runs that are serialized, each saving before the next
\* loads, discard nothing.
C13_OnlyOverlapLosesRecords == [][SaveReplacesWholeMapping]_vars

\* C13 witness: both processes loaded before either saved, both have saved,
\* and a record the other process wrote is not in the file any more
C13_Witness_LostUpdate ==
  /\ pc = "done" /\ hist.saved
  /\ other.pc = "done" /\ other.hist.saved
  /\ hist.loaded = other.hist.loaded
  /\ \E k \in DOMAIN other.state.map : k \notin DOMAIN disk.map

\* the file changes only by a save; a save over a readable file keeps every
\* key and every first_seen, and leaves first_seen <= last_seen in every
\* record the program wrote
StoreGrowsMonotonically ==
  /\ disk' # disk => Saved
  /\ Saved =>
       /\ disk.kind = "json" =>
            \A k \in DOMAIN disk.map :
              /\ k \in DOMAIN disk'.map
              /\ disk'.map[k].first_seen = disk.map[k].first_seen
       /\ \A k \in DOMAIN disk'.map :
            disk'.map[k].first_seen <= disk'.map[k].last_seen

\* C14: across serialized runs with a readable store and successful saves the
\* key set of the persisted store never shrinks, a record's first_seen never
\* changes, and with non-decreasing run dates first_seen <= last_seen in
\* every record.
C14_MonotonicStore == [][StoreGrowsMonotonically]_vars

\* C14 witness: a later run saved a record that an earlier run created
C14_Witness_RecordKeptAcrossRuns ==
  /\ pc = "done" /\ crashed = "none" /\ hist.saved
  /\ \E k \in DOMAIN disk.map :
       /\ disk.map[k].dict
       /\ 0 < disk.map[k].first_seen
       /\ disk.map[k].first_seen < disk.map[k].last_seen
       /\ disk.map[k].last_seen = now_local

\* C15: within one run each canonical key is in the digest at most once: no
\* two entries of the NEW and UPDATED sequences together have the same key,
\* whatever the full-text fetch returned for each occurrence.
C15_KeyOncePerDigest ==
  LET digest == new_items \o updated_items
  IN  \A i, j \in DOMAIN digest :
        normalise_url(digest[i].url) = normalise_url(digest[j].url) => i = j

====
